---- MODULE Spec2Model ----
(***************************************************************************)
(* Backend sidecar supervision of src/frontend/src-tauri/src/lib.rs:       *)
(* setup spawns the backend and two background tasks (the output monitor   *)
(* and wait_for_backend_health), which share the `ready` mutex; the        *)
(* window Destroyed handler takes and kills the child.                     *)
(***************************************************************************)
EXTENDS Integers, Sequences, FiniteSets, TLC

\* ------------------------------------------------------------------ bounds

\* Window Destroyed events the host delivers.
MaxDestroyed == 2

\* Output events still delivered from the channel after the process is dead.
MaxBuffered == 1

\* perform_health_check calls stepped through under ProbeSpec.
MaxProbeRounds == 2

\* ------------------------------------------------------- program constants

MAX_ATTEMPTS == 30

INITIAL_DELAY_MS == 200

MAX_DELAY_MS == 2000

\* ------------------------------------------------------------ output lines
\* A line is the sequence of its characters; "<FF>" stands for a byte that is
\* not valid UTF-8 and "<FFFD>" for the replacement character.

\* "Uvicorn running on"
MarkerUvicorn ==
    <<"U", "v", "i", "c", "o", "r", "n", " ", "r", "u", "n", "n", "i", "n",
      "g", " ", "o", "n">>

\* "Listening on"
MarkerListening ==
    <<"L", "i", "s", "t", "e", "n", "i", "n", "g", " ", "o", "n">>

\* "API Docs"
MarkerApiDocs ==
    <<"A", "P", "I", " ", "D", "o", "c", "s">>

\* "INFO: Uvicorn running on http://0.0.0.0:8000"
LineUvicorn ==
    <<"I", "N", "F", "O", ":", " ", "U", "v", "i", "c", "o", "r", "n", " ",
      "r", "u", "n", "n", "i", "n", "g", " ", "o", "n", " ", "h", "t", "t",
      "p", ":", "/", "/", "0", ".", "0", ".", "0", ".", "0", ":", "8", "0",
      "0", "0">>

\* "Listening on 8000"
LineListening ==
    <<"L", "i", "s", "t", "e", "n", "i", "n", "g", " ", "o", "n", " ", "8",
      "0", "0", "0">>

\* "See API Docs"
LineApiDocs ==
    <<"S", "e", "e", " ", "A", "P", "I", " ", "D", "o", "c", "s">>

\* "Starting server"
LinePlain ==
    <<"S", "t", "a", "r", "t", "i", "n", "g", " ", "s", "e", "r", "v", "e",
      "r">>

\* "API" 0xFF "Docs": an invalid byte where the marker has a space
LineBroken ==
    <<"A", "P", "I", "<FF>", "D", "o", "c", "s">>

\* The byte lines the backend may write to either stream.
Lines == {LineUvicorn, LineListening, LineApiDocs, LinePlain, LineBroken}

\* String::from_utf8_lossy: an invalid byte becomes U+FFFD, the rest is kept.
from_utf8_lossy(line) ==
    [i \in 1..Len(line) |-> IF line[i] = "<FF>" THEN "<FFFD>" ELSE line[i]]

\* str::contains: pat occurs in s as a contiguous run of characters.
contains(s, pat) ==
    \E i \in 1..(Len(s) - Len(pat) + 1) : SubSeq(s, i, i + Len(pat) - 1) = pat

\* Mutant of IsReadyLine: the "Listening on" marker is forgotten.
IsReadyLineNoListening(output) ==
    \/ contains(output, MarkerUvicorn)
    \/ contains(output, MarkerApiDocs)

\* The readiness test of the output monitor (lines 54-56).
IsReadyLine(output) ==
    \/ contains(output, MarkerUvicorn)
    \/ contains(output, MarkerListening)
    \/ contains(output, MarkerApiDocs)

\* ------------------------------------------------------------ health check

\* What one endpoint does with a request: no response within the timeout
\* (send() is Err), a 2xx response, or a response with another status.
Responses == {"err", "2xx", "non2xx"}

\* The three urls of perform_health_check, in the order of the array.
Urls == 1..3

RECURSIVE CheckFrom(_, _)
CheckFrom(resps, i) ==
    IF i > 3 THEN "Err"
    ELSE IF resps[i] = "err" THEN CheckFrom(resps, i + 1)
    ELSE IF resps[i] = "2xx" THEN "OkTrue" ELSE "OkFalse"

\* perform_health_check: the first url that responds decides.
perform_health_check(resps) == CheckFrom(resps, 1)

\* std::cmp::min
Min(a, b) == IF a < b THEN a ELSE b

\* Mutant of NextDelay: the cap is applied before the doubling.
NextDelayCapFirst(d) == Min(d, MAX_DELAY_MS) * 2

\* delay = min(delay * 2, MAX_DELAY_MS)
NextDelay(d) == Min(d * 2, MAX_DELAY_MS)

\* ------------------------------------------------------------------- state

VARIABLES
    host,          \* "setup" | "running" | "aborted" (a panic in setup)
    spawn,         \* outcome of sidecar.spawn(): "none" | "ok" | "failed"
    child,         \* BackendState.child: "None" | "Some"
    childLog,      \* each write of BackendState.child, with the locks held
    ready,         \* the bool inside BackendState.ready
    readyLock,     \* holder of the ready mutex: "free" | "monitor" | "prober"
    proc,          \* the backend process: "none" | "alive" | "dead"
    kills,         \* child.kill() calls issued
    destroyed,     \* window Destroyed events handled
    buffered,      \* output events delivered after the process died
    monPc,         \* output monitor: "idle"|"recv"|"lock"|"write"|"exit"|"done"
    started,       \* the monitor's local `started`
    lastEvent,     \* the last CommandEvent the monitor received
    exitWarns,     \* "exited without clear startup confirmation" warnings
    hpPc,          \* wait_for_backend_health: position in the function
    attempt,       \* its local `attempt`
    delay,         \* its local `delay`
    sleeps,        \* the delays it has slept, in order
    probes,        \* perform_health_check calls completed
    lastProbe,     \* result of the last one: "none"|"OkTrue"|"OkFalse"|"Err"
    allErr,        \* every completed probe returned Err
    timeoutWarns,  \* "health check timeout" warnings
    outcome,       \* how the prober ended: "none" | "log" | "http" | "timeout"
    readyAtLoopEnd,\* history: ready held when the while loop ended
    hcRound,       \* perform_health_check calls begun (ProbeSpec)
    hcResps,       \* what each url does with the request of this call
    hcUrl,         \* index of the url the for loop is at
    hcResult       \* "none" | "pending" | "OkTrue" | "OkFalse" | "Err"

vars ==
    <<host, spawn, child, childLog, ready, readyLock, proc, kills, destroyed,
      buffered, monPc, started, lastEvent, exitWarns, hpPc, attempt, delay,
      sleeps, probes, lastProbe, allErr, timeoutWarns, outcome,
      readyAtLoopEnd, hcRound, hcResps, hcUrl, hcResult>>

hcVars == <<hcRound, hcResps, hcUrl, hcResult>>

mainVars == <<host, spawn, child, childLog, kills, destroyed>>

monVars == <<monPc, started, lastEvent, exitWarns>>

hpVars ==
    <<hpPc, attempt, delay, sleeps, probes, lastProbe, allErr, timeoutWarns,
      outcome, readyAtLoopEnd>>

NoEvent == [kind |-> "none", line |-> <<>>]

\* The locks the main thread holds: it never locks the ready mutex, and
\* BackendState has no other lock.
MainLocks == IF readyLock = "main" THEN {"ready"} ELSE {}

\* No perform_health_check call is being stepped through.
HcIdle ==
    /\ hcRound = 0
    /\ hcResps = [u \in Urls |-> "err"]
    /\ hcUrl = 0
    /\ hcResult = "none"

\* .manage(BackendState { child: None, ready: Arc::new(Mutex::new(false)) })
BackendInit ==
    /\ host = "setup"
    /\ spawn = "none"
    /\ child = "None"
    /\ childLog = <<>>
    /\ ready = FALSE
    /\ readyLock = "free"
    /\ proc = "none"
    /\ kills = 0
    /\ destroyed = 0
    /\ buffered = 0
    /\ monPc = "idle"
    /\ started = FALSE
    /\ lastEvent = NoEvent
    /\ exitWarns = 0
    /\ hpPc = "idle"
    /\ attempt = 0
    /\ delay = INITIAL_DELAY_MS
    /\ sleeps = <<>>
    /\ probes = 0
    /\ lastProbe = "none"
    /\ allErr = TRUE
    /\ timeoutWarns = 0
    /\ outcome = "none"
    /\ readyAtLoopEnd = FALSE

Init == BackendInit /\ HcIdle

\* ------------------------------------------------------------- main thread

\* setup, when sidecar.spawn() succeeds: the child is stored through the raw
\* pointer and both tasks are spawned; setup returns Ok(()).
SetupOk ==
    /\ host = "setup"
    /\ spawn' = "ok"
    /\ child' = "Some"
    /\ childLog' = Append(childLog, [op |-> "install", locks |-> MainLocks])
    /\ proc' = "alive"
    /\ monPc' = "recv"
    /\ hpPc' = "loop"
    /\ host' = "running"
    /\ UNCHANGED <<ready, readyLock, kills, destroyed, buffered, started,
                   lastEvent, exitWarns, attempt, delay, sleeps, probes,
                   lastProbe, allErr, timeoutWarns, outcome>>
    /\ UNCHANGED readyAtLoopEnd
    /\ UNCHANGED hcVars

\* setup, when sidecar.spawn() fails: .expect panics.
SetupSpawnFails ==
    /\ host = "setup"
    /\ spawn' = "failed"
    /\ host' = "aborted"
    /\ UNCHANGED <<child, childLog, ready, readyLock, proc, kills, destroyed,
                   buffered>>
    /\ UNCHANGED monVars
    /\ UNCHANGED hpVars
    /\ UNCHANGED hcVars

\* Mutant of OnDestroyed: killing the backend also clears the ready flag.
OnDestroyedResetsReady ==
    /\ host = "running"
    /\ destroyed < MaxDestroyed
    /\ destroyed' = destroyed + 1
    /\ IF child = "Some"
       THEN /\ child' = "None"
            /\ childLog' = Append(childLog, [op |-> "take", locks |-> MainLocks])
            /\ kills' = kills + 1
            /\ proc' = "dead"
            /\ ready' = FALSE
       ELSE UNCHANGED <<child, childLog, kills, proc, ready>>
    /\ UNCHANGED <<host, spawn, readyLock, buffered>>
    /\ UNCHANGED monVars
    /\ UNCHANGED hpVars
    /\ UNCHANGED hcVars

\* Mutant of OnDestroyed: the child is killed through a reference and left
\* in BackendState (no take()).
OnDestroyedNoTake ==
    /\ host = "running"
    /\ destroyed < MaxDestroyed
    /\ destroyed' = destroyed + 1
    /\ IF child = "Some"
       THEN /\ kills' = kills + 1
            /\ proc' = "dead"
       ELSE UNCHANGED <<kills, proc>>
    /\ UNCHANGED <<host, spawn, child, childLog, ready, readyLock, buffered>>
    /\ UNCHANGED monVars
    /\ UNCHANGED hpVars
    /\ UNCHANGED hcVars

\* Mutant of OnDestroyed: the kill is issued whether or not a child is held.
OnDestroyedKillsBlind ==
    /\ host = "running"
    /\ destroyed < MaxDestroyed
    /\ destroyed' = destroyed + 1
    /\ kills' = kills + 1
    /\ proc' = "dead"
    /\ IF child = "Some"
       THEN /\ child' = "None"
            /\ childLog' = Append(childLog, [op |-> "take", locks |-> MainLocks])
       ELSE UNCHANGED <<child, childLog>>
    /\ UNCHANGED <<host, spawn, ready, readyLock, buffered>>
    /\ UNCHANGED monVars
    /\ UNCHANGED hpVars
    /\ UNCHANGED hcVars

\* on_window_event, WindowEvent::Destroyed: child.take(), then kill.
OnDestroyed ==
    /\ host = "running"
    /\ destroyed < MaxDestroyed
    /\ destroyed' = destroyed + 1
    /\ IF child = "Some"
       THEN /\ child' = "None"
            /\ childLog' = Append(childLog, [op |-> "take", locks |-> MainLocks])
            /\ kills' = kills + 1
            /\ proc' = "dead"
       ELSE UNCHANGED <<child, childLog, kills, proc>>
    /\ UNCHANGED <<host, spawn, ready, readyLock, buffered>>
    /\ UNCHANGED monVars
    /\ UNCHANGED hpVars
    /\ UNCHANGED hcVars

\* The backend process exits on its own.
ProcExits ==
    /\ proc = "alive"
    /\ proc' = "dead"
    /\ UNCHANGED <<ready, readyLock, buffered>>
    /\ UNCHANGED mainVars
    /\ UNCHANGED monVars
    /\ UNCHANGED hpVars
    /\ UNCHANGED hcVars

\* ---------------------------------------------------------- output monitor

\* rx.recv() can yield an output event: the process is alive, or it is dead
\* and the channel still holds some.
OutputAvailable == proc = "alive" \/ (proc = "dead" /\ buffered < MaxBuffered)

Delivered == IF proc = "dead" THEN buffered + 1 ELSE buffered

\* CommandEvent::Stdout(line)
MonStdout ==
    /\ monPc = "recv"
    /\ OutputAvailable
    /\ buffered' = Delivered
    /\ \E line \in Lines :
         /\ lastEvent' = [kind |-> "Stdout", line |-> line]
         /\ IF IsReadyLine(from_utf8_lossy(line))
            THEN /\ started' = TRUE
                 /\ monPc' = "lock"
            ELSE UNCHANGED <<started, monPc>>
    /\ UNCHANGED <<ready, readyLock, proc, exitWarns>>
    /\ UNCHANGED mainVars
    /\ UNCHANGED hpVars
    /\ UNCHANGED hcVars

\* ready_flag.lock() of line 58
MonLock ==
    /\ monPc = "lock"
    /\ readyLock = "free"
    /\ readyLock' = "monitor"
    /\ monPc' = "write"
    /\ UNCHANGED <<ready, proc, buffered, started, lastEvent, exitWarns>>
    /\ UNCHANGED mainVars
    /\ UNCHANGED hpVars
    /\ UNCHANGED hcVars

\* Mutant of MonWrite: the guard is bound to a local that lives on into the
\* next rx.recv().await.
MonWriteKeepsLock ==
    /\ monPc = "write"
    /\ readyLock = "monitor"
    /\ ready' = TRUE
    /\ monPc' = "recv"
    /\ UNCHANGED <<readyLock, proc, buffered, started, lastEvent, exitWarns>>
    /\ UNCHANGED mainVars
    /\ UNCHANGED hpVars
    /\ UNCHANGED hcVars

\* *guard = true of line 58; the guard is dropped at the end of the statement
MonWrite ==
    /\ monPc = "write"
    /\ readyLock = "monitor"
    /\ ready' = TRUE
    /\ readyLock' = "free"
    /\ monPc' = "recv"
    /\ UNCHANGED <<proc, buffered, started, lastEvent, exitWarns>>
    /\ UNCHANGED mainVars
    /\ UNCHANGED hpVars
    /\ UNCHANGED hcVars

\* Mutant of MonStderr: standard error is scanned for markers like
\* standard output.
MonStderrScansMarkers ==
    /\ monPc = "recv"
    /\ OutputAvailable
    /\ buffered' = Delivered
    /\ \E line \in Lines :
         /\ lastEvent' = [kind |-> "Stderr", line |-> line]
         /\ IF IsReadyLine(from_utf8_lossy(line))
            THEN /\ started' = TRUE
                 /\ monPc' = "lock"
            ELSE UNCHANGED <<started, monPc>>
    /\ UNCHANGED <<ready, readyLock, proc, exitWarns>>
    /\ UNCHANGED mainVars
    /\ UNCHANGED hpVars
    /\ UNCHANGED hcVars

\* CommandEvent::Stderr(line)
MonStderr ==
    /\ monPc = "recv"
    /\ OutputAvailable
    /\ buffered' = Delivered
    /\ \E line \in Lines : lastEvent' = [kind |-> "Stderr", line |-> line]
    /\ UNCHANGED <<ready, readyLock, proc, monPc, started, exitWarns>>
    /\ UNCHANGED mainVars
    /\ UNCHANGED hpVars
    /\ UNCHANGED hcVars

\* any other CommandEvent (the `_ => {}` arm)
MonOther ==
    /\ monPc = "recv"
    /\ OutputAvailable
    /\ buffered' = Delivered
    /\ lastEvent' = [kind |-> "Other", line |-> <<>>]
    /\ UNCHANGED <<ready, readyLock, proc, monPc, started, exitWarns>>
    /\ UNCHANGED mainVars
    /\ UNCHANGED hpVars
    /\ UNCHANGED hcVars

\* CommandEvent::Terminated(payload): break
MonTerminated ==
    /\ monPc = "recv"
    /\ proc = "dead"
    /\ lastEvent' = [kind |-> "Terminated", line |-> <<>>]
    /\ monPc' = "exit"
    /\ UNCHANGED <<ready, readyLock, proc, buffered, started, exitWarns>>
    /\ UNCHANGED mainVars
    /\ UNCHANGED hpVars
    /\ UNCHANGED hcVars

\* rx.recv() returns None: the while let ends
MonStreamEnd ==
    /\ monPc = "recv"
    /\ proc = "dead"
    /\ lastEvent' = [kind |-> "End", line |-> <<>>]
    /\ monPc' = "exit"
    /\ UNCHANGED <<ready, readyLock, proc, buffered, started, exitWarns>>
    /\ UNCHANGED mainVars
    /\ UNCHANGED hpVars
    /\ UNCHANGED hcVars

\* Mutant of MonExit: the warning is printed without testing `started`.
MonExitAlwaysWarns ==
    /\ monPc = "exit"
    /\ exitWarns' = exitWarns + 1
    /\ monPc' = "done"
    /\ UNCHANGED <<ready, readyLock, proc, buffered, started, lastEvent>>
    /\ UNCHANGED mainVars
    /\ UNCHANGED hpVars
    /\ UNCHANGED hcVars

\* if !started { eprintln!(...) }, and the task ends
MonExit ==
    /\ monPc = "exit"
    /\ exitWarns' = IF started THEN exitWarns ELSE exitWarns + 1
    /\ monPc' = "done"
    /\ UNCHANGED <<ready, readyLock, proc, buffered, started, lastEvent>>
    /\ UNCHANGED mainVars
    /\ UNCHANGED hpVars
    /\ UNCHANGED hcVars

OutputMonitor ==
    \/ MonStdout
    \/ MonLock
    \/ MonWrite
    \/ MonStderr
    \/ MonOther
    \/ MonTerminated
    \/ MonStreamEnd
    \/ MonExit

\* ------------------------------------------------- wait_for_backend_health

\* Mutant of HPLoopEnter: the loop test is attempt <= MAX_ATTEMPTS.
HPLoopEnterOffByOne ==
    /\ hpPc = "loop"
    /\ attempt <= MAX_ATTEMPTS
    /\ attempt' = attempt + 1
    /\ hpPc' = "check_lock"
    /\ UNCHANGED <<ready, readyLock, proc, buffered, delay, sleeps, probes,
                   lastProbe, allErr, timeoutWarns, outcome>>
    /\ UNCHANGED mainVars
    /\ UNCHANGED monVars
    /\ UNCHANGED readyAtLoopEnd
    /\ UNCHANGED hcVars

\* while attempt < MAX_ATTEMPTS { attempt += 1; ...
HPLoopEnter ==
    /\ hpPc = "loop"
    /\ attempt < MAX_ATTEMPTS
    /\ attempt' = attempt + 1
    /\ hpPc' = "check_lock"
    /\ UNCHANGED <<ready, readyLock, proc, buffered, delay, sleeps, probes,
                   lastProbe, allErr, timeoutWarns, outcome>>
    /\ UNCHANGED mainVars
    /\ UNCHANGED monVars
    /\ UNCHANGED readyAtLoopEnd
    /\ UNCHANGED hcVars

\* Mutant of HPLoopExit: the timeout warning is not printed.
HPLoopExitNoWarn ==
    /\ hpPc = "loop"
    /\ ~(attempt < MAX_ATTEMPTS)
    /\ hpPc' = "force_lock"
    /\ UNCHANGED <<ready, readyLock, proc, buffered, attempt, delay, sleeps,
                   probes, lastProbe, allErr, timeoutWarns, outcome>>
    /\ UNCHANGED mainVars
    /\ UNCHANGED monVars
    /\ readyAtLoopEnd' = ready
    /\ UNCHANGED hcVars

\* the loop ends: the two eprintln! of lines 151-152
HPLoopExit ==
    /\ hpPc = "loop"
    /\ ~(attempt < MAX_ATTEMPTS)
    /\ timeoutWarns' = timeoutWarns + 1
    /\ hpPc' = "force_lock"
    /\ UNCHANGED <<ready, readyLock, proc, buffered, attempt, delay, sleeps,
                   probes, lastProbe, allErr, outcome>>
    /\ UNCHANGED mainVars
    /\ UNCHANGED monVars
    /\ readyAtLoopEnd' = ready
    /\ UNCHANGED hcVars

\* ready_flag.lock() of lines 124, 132 and 153
HPLock ==
    /\ hpPc \in {"check_lock", "set_lock", "force_lock"}
    /\ readyLock = "free"
    /\ readyLock' = "prober"
    /\ hpPc' = CASE hpPc = "check_lock" -> "check"
                 [] hpPc = "set_lock" -> "set"
                 [] hpPc = "force_lock" -> "force"
    /\ UNCHANGED <<ready, proc, buffered, attempt, delay, sleeps, probes,
                   lastProbe, allErr, timeoutWarns, outcome>>
    /\ UNCHANGED mainVars
    /\ UNCHANGED monVars
    /\ UNCHANGED readyAtLoopEnd
    /\ UNCHANGED hcVars

\* Mutant of HPCheck: the guard is bound to a local and outlives the test.
HPCheckKeepsLock ==
    /\ hpPc = "check"
    /\ readyLock = "prober"
    /\ IF ready
       THEN /\ hpPc' = "done"
            /\ outcome' = "log"
            /\ readyLock' = "free"
       ELSE /\ hpPc' = "probe"
            /\ UNCHANGED <<outcome, readyLock>>
    /\ UNCHANGED <<ready, proc, buffered, attempt, delay, sleeps, probes,
                   lastProbe, allErr, timeoutWarns>>
    /\ UNCHANGED mainVars
    /\ UNCHANGED monVars
    /\ UNCHANGED readyAtLoopEnd
    /\ UNCHANGED hcVars

\* Mutant of HPCheck: the flag is read but the probe is made regardless.
HPCheckIgnoresFlag ==
    /\ hpPc = "check"
    /\ readyLock = "prober"
    /\ readyLock' = "free"
    /\ hpPc' = "probe"
    /\ UNCHANGED <<ready, proc, buffered, attempt, delay, sleeps, probes,
                   lastProbe, allErr, timeoutWarns, outcome>>
    /\ UNCHANGED mainVars
    /\ UNCHANGED monVars
    /\ UNCHANGED readyAtLoopEnd
    /\ UNCHANGED hcVars

\* if *guard { return; }: the guard is dropped with the condition
HPCheck ==
    /\ hpPc = "check"
    /\ readyLock = "prober"
    /\ readyLock' = "free"
    /\ IF ready
       THEN /\ hpPc' = "done"
            /\ outcome' = "log"
       ELSE /\ hpPc' = "probe"
            /\ UNCHANGED outcome
    /\ UNCHANGED <<ready, proc, buffered, attempt, delay, sleeps, probes,
                   lastProbe, allErr, timeoutWarns>>
    /\ UNCHANGED mainVars
    /\ UNCHANGED monVars
    /\ UNCHANGED readyAtLoopEnd
    /\ UNCHANGED hcVars

\* Mutant of HPProbe: any response, 2xx or not, is taken as success.
HPProbeAcceptsAnyResponse ==
    /\ hpPc = "probe"
    /\ \E resps \in [Urls -> Responses] :
         LET r == perform_health_check(resps) IN
           /\ lastProbe' = r
           /\ allErr' = (allErr /\ r = "Err")
           /\ hpPc' = IF r \in {"OkTrue", "OkFalse"} THEN "set_lock" ELSE "sleep"
    /\ probes' = probes + 1
    /\ UNCHANGED <<ready, readyLock, proc, buffered, attempt, delay, sleeps,
                   timeoutWarns, outcome>>
    /\ UNCHANGED mainVars
    /\ UNCHANGED monVars
    /\ UNCHANGED readyAtLoopEnd
    /\ UNCHANGED hcVars

\* match perform_health_check().await
HPProbe ==
    /\ hpPc = "probe"
    /\ \E resps \in [Urls -> Responses] :
         LET r == perform_health_check(resps) IN
           /\ lastProbe' = r
           /\ allErr' = (allErr /\ r = "Err")
           /\ hpPc' = IF r = "OkTrue" THEN "set_lock" ELSE "sleep"
    /\ probes' = probes + 1
    /\ UNCHANGED <<ready, readyLock, proc, buffered, attempt, delay, sleeps,
                   timeoutWarns, outcome>>
    /\ UNCHANGED mainVars
    /\ UNCHANGED monVars
    /\ UNCHANGED readyAtLoopEnd
    /\ UNCHANGED hcVars

\* *guard = true of line 132, then return
HPSet ==
    /\ hpPc = "set"
    /\ readyLock = "prober"
    /\ ready' = TRUE
    /\ readyLock' = "free"
    /\ outcome' = "http"
    /\ hpPc' = "done"
    /\ UNCHANGED <<proc, buffered, attempt, delay, sleeps, probes, lastProbe,
                   allErr, timeoutWarns>>
    /\ UNCHANGED mainVars
    /\ UNCHANGED monVars
    /\ UNCHANGED readyAtLoopEnd
    /\ UNCHANGED hcVars

\* tokio::time::sleep(delay).await; delay = min(delay * 2, MAX_DELAY_MS)
HPSleep ==
    /\ hpPc = "sleep"
    /\ sleeps' = Append(sleeps, delay)
    /\ delay' = NextDelay(delay)
    /\ hpPc' = "loop"
    /\ UNCHANGED <<ready, readyLock, proc, buffered, attempt, probes,
                   lastProbe, allErr, timeoutWarns, outcome>>
    /\ UNCHANGED mainVars
    /\ UNCHANGED monVars
    /\ UNCHANGED readyAtLoopEnd
    /\ UNCHANGED hcVars

\* Mutant of HPForce: the function ends without the write of line 153.
HPForceNoWrite ==
    /\ hpPc = "force"
    /\ readyLock = "prober"
    /\ readyLock' = "free"
    /\ outcome' = "timeout"
    /\ hpPc' = "done"
    /\ UNCHANGED <<ready, proc, buffered, attempt, delay, sleeps, probes,
                   lastProbe, allErr, timeoutWarns>>
    /\ UNCHANGED mainVars
    /\ UNCHANGED monVars
    /\ UNCHANGED readyAtLoopEnd
    /\ UNCHANGED hcVars

\* *guard = true of line 153: mark as ready anyway
HPForce ==
    /\ hpPc = "force"
    /\ readyLock = "prober"
    /\ ready' = TRUE
    /\ readyLock' = "free"
    /\ outcome' = "timeout"
    /\ hpPc' = "done"
    /\ UNCHANGED <<proc, buffered, attempt, delay, sleeps, probes, lastProbe,
                   allErr, timeoutWarns>>
    /\ UNCHANGED mainVars
    /\ UNCHANGED monVars
    /\ UNCHANGED readyAtLoopEnd
    /\ UNCHANGED hcVars

wait_for_backend_health ==
    \/ HPLoopEnter
    \/ HPLoopExit
    \/ HPLock
    \/ HPCheck
    \/ HPProbe
    \/ HPSet
    \/ HPSleep
    \/ HPForce

\* ---------------------------------------- perform_health_check, by steps

backendVars ==
    <<ready, readyLock, proc, buffered, mainVars, monVars, hpVars>>

\* perform_health_check is called with the endpoints in some condition.
HCStart ==
    /\ hcResult # "pending"
    /\ hcRound < MaxProbeRounds
    /\ hcRound' = hcRound + 1
    /\ hcResps' \in [Urls -> Responses]
    /\ hcUrl' = 1
    /\ hcResult' = "pending"
    /\ UNCHANGED backendVars

\* send().await is Err(_): continue with the next url
HCNoResponse ==
    /\ hcResult = "pending"
    /\ hcUrl \in Urls
    /\ hcResps[hcUrl] = "err"
    /\ hcUrl' = hcUrl + 1
    /\ UNCHANGED <<hcRound, hcResps, hcResult>>
    /\ UNCHANGED backendVars

\* Mutant of HCResponse: a response that is not 2xx is passed over like an
\* error and the next url is tried.
HCResponseSkipsNon2xx ==
    /\ hcResult = "pending"
    /\ hcUrl \in Urls
    /\ hcResps[hcUrl] # "err"
    /\ IF hcResps[hcUrl] = "2xx"
       THEN hcResult' = "OkTrue" /\ hcUrl' = hcUrl
       ELSE hcResult' = hcResult /\ hcUrl' = hcUrl + 1
    /\ UNCHANGED <<hcRound, hcResps>>
    /\ UNCHANGED backendVars

\* Ok(resp) => return Ok(resp.status().is_success())
HCResponse ==
    /\ hcResult = "pending"
    /\ hcUrl \in Urls
    /\ hcResps[hcUrl] # "err"
    /\ hcResult' = IF hcResps[hcUrl] = "2xx" THEN "OkTrue" ELSE "OkFalse"
    /\ UNCHANGED <<hcRound, hcResps, hcUrl>>
    /\ UNCHANGED backendVars

\* the for loop ends: Err("No health endpoints responded")
HCExhausted ==
    /\ hcResult = "pending"
    /\ hcUrl \notin Urls
    /\ hcResult' = "Err"
    /\ UNCHANGED <<hcRound, hcResps, hcUrl>>
    /\ UNCHANGED backendVars

ProbeNext ==
    \/ HCStart
    \/ HCNoResponse
    \/ HCResponse
    \/ HCExhausted

\* perform_health_check alone, one request at a time, on every condition of
\* the three endpoints.
ProbeSpec == Init /\ [][ProbeNext]_vars

\* ----------------------------------------------------------- specification

Next ==
    \/ SetupOk
    \/ SetupSpawnFails
    \/ OnDestroyed
    \/ ProcExits
    \/ OutputMonitor
    \/ wait_for_backend_health

Spec == Init /\ [][Next]_vars

\* The prober is scheduled fairly: each probe ends (the requests time out
\* after 1 s) and each sleep ends. The monitor, once it holds the ready mutex,
\* stores and unlocks: line 58 has no await, so the lock is not held across
\* a suspension. Nothing else is forced: the stream need not deliver.
FairSpec ==
    /\ Spec
    /\ WF_vars(wait_for_backend_health)
    /\ WF_vars(MonWrite)

\* FairSpec, and moreover: the monitor task is scheduled fairly; once the
\* process is dead the channel delivers Terminated or closes; and a task
\* prober blocked in lock() gets the mutex if it is released again and again
\* (the monitor cannot starve it by relocking: strong fairness of the lock;
\* the prober locks only finitely often, so the monitor needs none).
TaskFairSpec ==
    /\ FairSpec
    /\ WF_vars(MonLock \/ MonExit \/ MonTerminated \/ MonStreamEnd)
    /\ SF_vars(HPLock)

\* ------------------------------------------------------------------ claims

\* C1: ReadinessState starts NotReady and is monotonic: no step of the
\* monitor, the prober or the Destroyed handler takes ready from TRUE to
\* FALSE.
ReadyMonotonic == (~ready) /\ [][ready => ready']_vars

\* C1 witness: the monitor made it Ready, then the prober saw it, the Destroyed
\* handler killed the backend and the monitor ended; it is still Ready.
ReadyAfterEveryTaskActed ==
    ready /\ started /\ outcome = "log" /\ kills = 1 /\ monPc = "done"

\* C2: however many Destroyed events are handled, one kill is issued: the
\* first takes the child, the later ones find None.
SingleKill ==
    /\ kills <= 1
    /\ destroyed >= 1 => (kills = 1 /\ child = "None")
    /\ Cardinality({i \in 1..Len(childLog) : childLog[i].op = "take"}) <= 1

\* C2 witness: Destroyed handled twice or more, one kill.
TwoDestroyedOneKill == destroyed >= 2 /\ kills = 1 /\ child = "None"

\* C3: once the tasks are spawned, ready eventually becomes TRUE, whatever
\* the stream delivers, the probes return and the Destroyed handler does.
EventuallyReady == (spawn = "ok") ~> ready

\* C3 witness: the backend was killed, printed no marker, no probe succeeded,
\* and ready is TRUE at the end.
ReadyWithoutAnyConfirmation ==
    spawn = "ok" /\ kills = 1 /\ ~started /\ outcome = "timeout" /\ ready

\* The lines of Lines that hold a readiness marker, listed by hand.
MarkerLines == {LineUvicorn, LineListening, LineApiDocs}

\* C4: when the monitor is back at rx.recv() after a stdout line holding a
\* marker, ready is TRUE, wherever the prober is.
MarkerLineSetsReady ==
    (monPc = "recv" /\ lastEvent.kind = "Stdout" /\ lastEvent.line \in MarkerLines)
        => ready

\* C4 witness: the line has just been processed while the first probe is
\* still in flight; no probe has completed.
MarkerBeforeAnyProbe ==
    /\ monPc = "recv"
    /\ lastEvent = [kind |-> "Stdout", line |-> LineUvicorn]
    /\ hpPc = "probe"
    /\ probes = 0
    /\ ready

\* The prober has ended by forcing readiness, with one timeout warning.
ForcedReady ==
    hpPc = "done" /\ outcome = "timeout" /\ ready /\ timeoutWarns = 1

\* C5: a spawned prober whose probes all return Err, with no marker line
\* ever processed, ends with ready forced to TRUE and the timeout warning
\* printed.
AllProbesFailForcesReady == (spawn = "ok") ~> (started \/ ~allErr \/ ForcedReady)

\* C5 witness: thirty probes, all Err, no marker, forced.
ForcedAfterThirtyErrors ==
    ForcedReady /\ allErr /\ probes = MAX_ATTEMPTS /\ ~started

\* min(200 * 2^(k-1), 2000); the exponent is cut at 10, beyond which the
\* power is far above the cap, to stay within machine integers.
ExpectedDelay(k) == Min(200 * 2^Min(k - 1, 10), 2000)

\* C6: the k-th sleep lasts min(200 * 2^(k-1), 2000) ms: 200, 400, 800,
\* 1600, then 2000 from the 5th on, never below 200 or above 2000.
BackoffSequence ==
    /\ \A k \in 1..Len(sleeps) :
         /\ sleeps[k] = ExpectedDelay(k)
         /\ k >= 5 => sleeps[k] = 2000
         /\ sleeps[k] >= 200
         /\ sleeps[k] <= 2000
    /\ Len(sleeps) >= 4 => SubSeq(sleeps, 1, 4) = <<200, 400, 800, 1600>>

\* C6 witness: the prober has slept past the cap.
SleptPastCap == Len(sleeps) >= 6 /\ sleeps[4] = 1600 /\ sleeps[6] = 2000

\* Readiness is being forced, or has been.
Forcing == hpPc \in {"force_lock", "force"} \/ outcome = "timeout"

\* C7: at most 30 attempts, probes and sleeps; readiness is forced only
\* after 30 attempts, none of which confirmed readiness.
AttemptBudget ==
    /\ attempt <= 30
    /\ probes <= 30
    /\ Len(sleeps) <= 30
    /\ Forcing =>
         /\ attempt = 30
         /\ probes = 30
         /\ Len(sleeps) = 30
         /\ lastProbe \in {"OkFalse", "Err"}

\* C7 witness: readiness was forced after the 30th attempt.
ForcedAtThirty == outcome = "timeout" /\ attempt = 30 /\ probes = 30

\* A step by which the monitor leaves its loop or ends.
MonLeaves ==
    \/ monPc = "recv" /\ monPc' = "exit"
    \/ monPc = "exit" /\ monPc' = "done"

\* C8: on Terminated or the end of the stream the monitor leaves its loop;
\* it ends with one warning if it saw no marker and none if it saw one, and
\* leaving changes neither ready nor its lock.
MonitorExitWarns ==
    /\ [](lastEvent.kind \in {"Terminated", "End"} => monPc \in {"exit", "done"})
    /\ [](monPc = "done" => exitWarns = (IF started THEN 0 ELSE 1))
    /\ [](monPc # "done" => exitWarns = 0)
    /\ [][MonLeaves => (ready' = ready /\ readyLock' = readyLock)]_vars

\* C8 witness: the stream ended before any marker; the monitor ended with
\* its one warning and ready is still FALSE.
ExitedUnconfirmed ==
    monPc = "done" /\ ~started /\ exitWarns = 1 /\ ~ready /\ lastEvent.kind = "End"

\* C9: when spawning fails the host is not aborted, no child is installed
\* and no task is launched.
SpawnFailureRecoverable ==
    spawn = "failed" =>
        (host # "aborted" /\ child = "None" /\ monPc = "idle" /\ hpPc = "idle")

\* C10: every write of BackendState.child is made while holding a lock.
ChildWritesLocked == \A i \in 1..Len(childLog) : childLog[i].locks # {}

\* A Destroyed event is handled while BackendState holds no child.
DestroyedWithoutChild == destroyed' = destroyed + 1 /\ child = "None"

\* C12: a Destroyed handler that finds no child issues no kill, raises no
\* error, and leaves the child field (None), ready and everything but the
\* count of handled events as they were.
TerminateNoOp ==
    [][DestroyedWithoutChild =>
         /\ kills' = kills
         /\ child' = "None"
         /\ ready' = ready
         /\ host' = "running"
         /\ UNCHANGED <<spawn, childLog, readyLock, proc, buffered>>
         /\ UNCHANGED monVars
         /\ UNCHANGED hpVars]_vars

\* C12 witness: a second Destroyed event was handled after the one that
\* took the child, while ready was still FALSE.
SecondDestroyedHandled ==
    destroyed = 2 /\ Len(childLog) = 2 /\ kills = 1 /\ ~ready /\ host = "running"

\* C13: the prober prints the timeout warning and ends by forcing readiness
\* only if the budget is exhausted and ready was not TRUE when the loop
\* ended; if it was, no timeout warning is printed.
TimeoutOnlyIfNotReady ==
    (timeoutWarns > 0 \/ outcome = "timeout") =>
        (attempt = MAX_ATTEMPTS /\ ~readyAtLoopEnd)

\* C14: from the prober's check of the flag to its write of TRUE in the same
\* iteration the prober holds the ready mutex, so no other task accesses
\* the flag in between.
CheckThenSetAtomic ==
    hpPc \in {"probe", "set_lock", "set"} => readyLock = "prober"

\* C15: when the check at the start of an iteration finds ready TRUE the
\* prober ends at once with success: no probe and no sleep in that
\* iteration, and afterwards it takes no step, so it never probes, sleeps
\* or writes ready again.
StopsWhenAlreadyReady ==
    /\ [][(hpPc = "check" /\ ready /\ hpPc' # "check") =>
            /\ hpPc' = "done"
            /\ outcome' = "log"
            /\ UNCHANGED <<ready, probes, sleeps, timeoutWarns>>]_vars
    /\ [](outcome = "log" =>
            /\ hpPc = "done"
            /\ ready
            /\ probes = attempt - 1
            /\ Len(sleeps) = attempt - 1
            /\ timeoutWarns = 0
            /\ readyLock # "prober")
    /\ [][outcome = "log" => UNCHANGED hpVars]_vars

\* C15 witness: the monitor set ready during a later iteration's backoff;
\* the prober ended on its next check with one probe fewer than attempts.
StoppedOnLaterCheck ==
    outcome = "log" /\ hpPc = "done" /\ attempt >= 2 /\ probes = attempt - 1

\* The first url in the order of the array that responds; 0 if none does.
FirstResponding(resps) ==
    LET R == {u \in Urls : resps[u] # "err"}
    IN  IF R = {} THEN 0 ELSE CHOOSE u \in R : \A v \in R : u <= v

\* C16: the urls are tried in the order of the array, each only after the
\* ones before it gave no response; the call ends at the first that
\* responds, Ok(true) exactly if that response is 2xx and Ok(false) exactly
\* if it is not, and Err exactly if none of the three responds.
HealthCheckVerdict ==
    /\ hcResult = "pending" => \A u \in Urls : u < hcUrl => hcResps[u] = "err"
    /\ hcResult \in {"OkTrue", "OkFalse", "Err"} =>
         LET f == FirstResponding(hcResps) IN
           /\ hcResult = "OkTrue" <=> (f # 0 /\ hcResps[f] = "2xx")
           /\ hcResult = "OkFalse" <=> (f # 0 /\ hcResps[f] = "non2xx")
           /\ hcResult = "Err" <=> f = 0
           /\ f # 0 => hcUrl = f
           /\ hcResult = perform_health_check(hcResps)

\* C16 witness: the first url gave no response and the second a non-2xx one;
\* the call ended Ok(false) there although the third would have returned 2xx.
StoppedAtNon2xx ==
    /\ hcResps = <<"err", "non2xx", "2xx">>
    /\ hcResult = "OkFalse"
    /\ hcUrl = 2

\* The monitor receives a standard-error line.
StderrReceived == lastEvent'.kind = "Stderr" /\ lastEvent' # lastEvent

\* C17: receiving a standard-error line, with or without a marker in it,
\* changes neither ready and its lock, nor `started` and the monitor's
\* position, nor BackendState.child, nor anything of the prober.
StderrChangesNothing ==
    [][StderrReceived =>
         /\ UNCHANGED <<ready, readyLock, started, monPc, exitWarns>>
         /\ UNCHANGED <<child, childLog, kills, host, spawn, destroyed, proc>>
         /\ UNCHANGED hpVars]_vars

\* C17 witness: the Uvicorn line arrived on standard error; the monitor is
\* back at rx.recv() with nothing recorded and ready still FALSE.
MarkerOnStderrIgnored ==
    /\ lastEvent = [kind |-> "Stderr", line |-> LineUvicorn]
    /\ monPc = "recv"
    /\ ~started
    /\ ~ready

\* C18: with no cancellation, from some point on the monitor has ended if
\* the backend was killed and the prober has ended if it was spawned; an
\* ended task does not start again.
TasksTerminate ==
    /\ <>[]((kills = 1 => monPc = "done") /\ (spawn = "ok" => hpPc = "done"))
    /\ [][monPc = "done" => monPc' = "done"]_vars
    /\ [][hpPc = "done" => UNCHANGED hpVars]_vars

\* C18 witness: the backend was killed before it printed anything or
\* answered a probe; both tasks have ended, the prober by exhaustion.
BothEndedAfterKill ==
    /\ kills = 1
    /\ monPc = "done"
    /\ hpPc = "done"
    /\ outcome = "timeout"
    /\ allErr
    /\ ~started

\* C19: ready is TRUE only after the monitor processed a stdout line holding
\* a marker, or a probe returned Ok(true), or the prober ran out of its 30
\* attempts; the monitor goes to write the flag only for such a line.
NoSpuriousReady ==
    /\ ready =>
         \/ started
         \/ lastProbe = "OkTrue" /\ outcome = "http"
         \/ attempt = 30 /\ probes = 30 /\ outcome = "timeout"
    /\ started => monPc # "idle"
    /\ monPc \in {"lock", "write"} =>
         (started /\ lastEvent.kind = "Stdout" /\ lastEvent.line \in MarkerLines)

\* C19 witness: ready is TRUE by a 2xx probe alone, after earlier probes
\* that failed, a Destroyed event and lines without a marker.
ReadyByProbeOnly ==
    /\ ready
    /\ ~started
    /\ outcome = "http"
    /\ attempt >= 2
    /\ destroyed >= 1
    /\ lastEvent.kind = "Stderr"

\* The positions at which the prober holds the guard: one read or one write.
ProberAccess == {"check", "set", "force"}

\* C20: the ready mutex is held exactly while a task is at its one read or
\* one write: not at rx.recv(), a probe or a sleep, nor while waiting for
\* it. The two tasks never hold it together, and a task waiting for it finds
\* the holder able to take its step and release.
LockHeldForOneAccess ==
    /\ readyLock = "monitor" <=> monPc = "write"
    /\ readyLock = "prober" <=> hpPc \in ProberAccess
    /\ ~(monPc = "write" /\ hpPc \in ProberAccess)
    /\ monPc \in {"recv", "lock", "exit", "done"} => readyLock # "monitor"
    /\ hpPc \in {"probe", "sleep", "check_lock", "set_lock", "force_lock", "done"}
         => readyLock # "prober"
    /\ (monPc = "lock" /\ readyLock # "free") => ENABLED (HPCheck \/ HPSet \/ HPForce)
    /\ (hpPc \in {"check_lock", "set_lock", "force_lock"} /\ readyLock # "free")
         => ENABLED MonWrite

\* C20 witness: the monitor waits at lock() while the prober holds the guard
\* for its read.
MonitorWaitsForProber ==
    monPc = "lock" /\ readyLock = "prober" /\ hpPc = "check"

====
